---- MODULE Spec2Model ----
(***************************************************************************)
(* Model of src/composite_cases.py: a Streamlit script that is re-executed *)
(* top to bottom after every user interaction.  One run evaluates the      *)
(* if/elif chain on case_selection, executes the matching case block and   *)
(* renders the footer.                                                     *)
(*                                                                         *)
(* Numbers.  The script computes with Python floats.  The model computes   *)
(* with exact decimal-scaled rationals <<n, d, e>> = (n / d) * 10^e in a   *)
(* canonical form (d > 0, gcd(n, d) = 1, d coprime to 10, n not divisible  *)
(* by 10), so two values are equal exactly when their triples are equal.   *)
(* Binary rounding of the floats is not modelled; the rounding to four     *)
(* significant digits that log_step applies for display is modelled.       *)
(***************************************************************************)
EXTENDS Integers, Sequences, FiniteSets, TLC

VARIABLES case_selection, widget, pc, loc, out, history, edits

vars == <<case_selection, widget, pc, loc, out, history, edits>>

\* Number of user interactions (widget edits, case changes) in one session.
MaxEdits == 2
\* A number input takes the values k * min_value for k in 1..MaxMult.
MaxMult == 2

----------------------------------------------------------------------------
\* Float arithmetic, modelled exactly.

Abs(x) == IF x < 0 THEN -x ELSE x

RECURSIVE GCD(_, _)
GCD(a, b) == IF b = 0 THEN a ELSE GCD(b, a % b)

RECURSIVE Pow10(_)
Pow10(k) == IF k = 0 THEN 1 ELSE 10 * Pow10(k - 1)

RECURSIVE StripNum(_, _, _)
StripNum(n, d, e) ==
    IF n % 10 = 0 THEN StripNum(n \div 10, d, e + 1) ELSE <<n, d, e>>

RECURSIVE StripDen(_, _, _)
StripDen(n, d, e) ==
    IF d % 10 = 0 THEN StripDen(n, d \div 10, e - 1)
    ELSE IF d % 2 = 0 THEN StripDen(n * 5, d \div 2, e - 1)
    ELSE IF d % 5 = 0 THEN StripDen(n * 2, d \div 5, e - 1)
    ELSE <<n, d, e>>

Zero == <<0, 1, 0>>

Norm(n, d, e) ==
    IF n = 0 THEN Zero
    ELSE LET s == IF d < 0 THEN -1 ELSE 1
             g == GCD(Abs(n), Abs(d))
             a == StripNum((s * n) \div g, Abs(d) \div g, e)
         IN  StripDen(a[1], a[2], a[3])

\* The decimal literal n * 10^e, e.g. 20e9 = Dec(20, 9), 0.002 = Dec(2, -3).
Dec(n, e) == Norm(n, 1, e)

RNeg(x) == <<-x[1], x[2], x[3]>>

RMul(x, y) ==
    IF x[1] = 0 \/ y[1] = 0 THEN Zero
    ELSE LET g1 == GCD(Abs(x[1]), y[2])
             g2 == GCD(Abs(y[1]), x[2])
         IN  Norm((x[1] \div g1) * (y[1] \div g2),
                  (x[2] \div g2) * (y[2] \div g1), x[3] + y[3])

\* x / y for y # 0 (Python raises ZeroDivisionError for y = 0; the actions
\* test the divisor before they divide).
RDiv(x, y) == RMul(x, Norm(y[2], y[1], -y[3]))

RAdd(x, y) ==
    IF x[1] = 0 THEN y
    ELSE IF y[1] = 0 THEN x
    ELSE LET e == IF x[3] < y[3] THEN x[3] ELSE y[3]
             a == x[1] * Pow10(x[3] - e)
             b == y[1] * Pow10(y[3] - e)
             l == (x[2] \div GCD(x[2], y[2])) * y[2]
         IN  Norm(a * (l \div x[2]) + b * (l \div y[2]), l, e)

RSub(x, y) == RAdd(x, RNeg(y))

RECURSIVE RPow(_, _)
RPow(x, k) == IF k = 0 THEN Dec(1, 0) ELSE RMul(x, RPow(x, k - 1))

RECURSIVE Sig4(_, _, _)
Sig4(a, d, k) ==
    IF a < 1000 * d THEN Sig4(a * 10, d, k + 1)
    ELSE IF a >= 10000 * d THEN Sig4(a, d * 10, k - 1)
    ELSE <<a, d, k>>

\* The number that the format f"{value:.4g}" prints: value rounded to four
\* significant digits (ties to even).
Fmt4g(x) ==
    IF x[1] = 0 THEN Zero
    ELSE LET s == Sig4(Abs(x[1]), x[2], 0)
             q == s[1] \div s[2]
             r == s[1] % s[2]
             m == IF 2 * r > s[2] \/ (2 * r = s[2] /\ q % 2 = 1)
                  THEN q + 1 ELSE q
         IN  Norm((IF x[1] < 0 THEN -m ELSE m), 1, x[3] - s[3])

RECURSIVE SqScale(_, _, _)
SqScale(a, d, e) ==
    IF a < 10000000 * d THEN SqScale(a * 100, d, e - 2) ELSE <<a \div d, e>>

RECURSIVE ISqrt(_, _, _)
ISqrt(n, lo, hi) ==
    IF lo = hi THEN lo
    ELSE LET mid == (lo + hi + 1) \div 2
         IN  IF mid * mid <= n THEN ISqrt(n, mid, hi) ELSE ISqrt(n, lo, mid - 1)

\* np.sqrt(x) for x > 0, to the four or five leading digits that fit the
\* model's integers (rounded down); the script never reads the result.
np_sqrt(x) ==
    LET odd == x[3] % 2 = 1
        s   == SqScale(IF odd THEN x[1] * 10 ELSE x[1], x[2],
                       IF odd THEN x[3] - 1 ELSE x[3])
    IN  Norm(ISqrt(s[1], 0, 46340), 1, s[2] \div 2)

----------------------------------------------------------------------------
\* Rendered elements.

Elem(kind, label, value, shown, unit) ==
    [kind |-> kind, label |-> label, value |-> value, shown |-> shown,
     unit |-> unit]

log_step(label, value, unit) == Elem("log_step", label, value, Fmt4g(value), unit)

section_header(title) == Elem("header", title, Zero, Zero, "")

Text(kind, label) == Elem(kind, label, Zero, Zero, "")

----------------------------------------------------------------------------
\* Sidebar widgets.

Options ==
    << "Case 1: Micromechanics (Bar)",
       "Case 2: Bending (Z-Section)",
       "Case 3: Shearing (Trapezoid)",
       "Case 4: Torsion (Rectangular Box)",
       "Case 5: Torsion (C-Section)",
       "Case 6: Exercise (I-Section)" >>

\* st.sidebar.number_input(label, x): the second positional parameter of
\* number_input is min_value; the widget first renders with that value and
\* the user cannot enter less.
WidgetMin(label) ==
    CASE label = "Matrix E (GPa)"       -> Dec(5, 0)
      [] label = "Fiber E (GPa)"        -> Dec(200, 0)
      [] label = "Matrix Vol Fraction"  -> Dec(8, -1)
      [] label = "Fiber Vol Fraction"   -> Dec(2, -1)
      [] label = "Axial Load (kN)"      -> Dec(100, 0)
      [] label = "Length (m)"           -> Dec(5, -1)
      [] label = "Flange E (GPa)"       -> Dec(50, 0)
      [] label = "Web E (GPa)"          -> Dec(15, 0)
      [] label = "Moment My (kNm)"      -> Dec(1, 0)
      [] label = "Shear Force Tz (kN)"  -> Dec(2, 0)
      [] label = "Torque Mx (kNm)"      -> Dec(10, 0)
      [] label = "Torque (Nm)"          -> Dec(10, 0)
      [] label = "Torque (kN mm)"       -> Dec(5, -1)

InputValues(label) == { RMul(Dec(k, 0), WidgetMin(label)) : k \in 1..MaxMult }

\* The value number_input returns in this run.
number_input(label) ==
    IF label \in DOMAIN widget THEN widget[label] ELSE WidgetMin(label)

\* The widget state after the run has rendered the given inputs.
Rendered(labels) ==
    [l \in (DOMAIN widget) \cup labels |-> number_input(l)]

Bind(names) == names @@ loc

----------------------------------------------------------------------------
Init ==
    /\ case_selection = Options[1]
    /\ widget = <<>>
    /\ pc = "start"
    /\ loc = <<>>
    /\ out = <<>>
    /\ history = {}
    /\ edits = 0

\* The user picks another option of the radio: the script reruns, the
\* number inputs of the previous case are no longer rendered.
SelectCase(c) ==
    /\ pc \in {"done", "error"}
    /\ edits < MaxEdits
    /\ c # case_selection
    /\ case_selection' = c
    /\ widget' = <<>>
    /\ pc' = "start"
    /\ loc' = <<>>
    /\ out' = <<>>
    /\ edits' = edits + 1
    /\ UNCHANGED history

\* The user changes one rendered number input: the script reruns.
EditInput(l, v) ==
    /\ pc \in {"done", "error"}
    /\ edits < MaxEdits
    /\ l \in DOMAIN widget
    /\ v # widget[l]
    /\ widget' = [widget EXCEPT ![l] = v]
    /\ pc' = "start"
    /\ loc' = <<>>
    /\ out' = <<>>
    /\ edits' = edits + 1
    /\ UNCHANGED <<case_selection, history>>

----------------------------------------------------------------------------
\* The if/elif chain.

\* A block title that differs from its option by one character.
BlockTitle_Typo ==
    << "Case 1: Micromechanics (Bar)",
       "Case 2: Bending (Z-Section)",
       "Case 3: Shearing (Trapezoid)",
       "Case 4: Torsion (Rectangular Box)",
       "Case 5: Torsion (C-Section)",
       "Case 6: Exercise (I Section)" >>

BlockTitle ==
    << "Case 1: Micromechanics (Bar)",
       "Case 2: Bending (Z-Section)",
       "Case 3: Shearing (Trapezoid)",
       "Case 4: Torsion (Rectangular Box)",
       "Case 5: Torsion (C-Section)",
       "Case 6: Exercise (I-Section)" >>

BlockEntry == << "case1", "case2", "case3", "case4", "case5", "case6" >>

Dispatch ==
    /\ pc = "start"
    /\ LET hit == { i \in 1..Len(BlockTitle) : BlockTitle[i] = case_selection }
       IN  pc' = IF hit = {} THEN "footer"
                 ELSE BlockEntry[CHOOSE i \in hit : \A j \in hit : i <= j]
    /\ UNCHANGED <<case_selection, widget, loc, out, history, edits>>

----------------------------------------------------------------------------
\* Case 1: micromechanics of the composite bar.

Case1_Moduli ==
    /\ pc = "case1"
    /\ LET Em == number_input("Matrix E (GPa)")
           Ef == number_input("Fiber E (GPa)")
           vm == number_input("Matrix Vol Fraction")
           vf == number_input("Fiber Vol Fraction")
           Force == number_input("Axial Load (kN)")
           L  == number_input("Length (m)")
           Ex == RAdd(RMul(vf, Ef), RMul(vm, Em))
           s  == RAdd(RDiv(vf, Ef), RDiv(vm, Em))
           Ey == RDiv(Dec(1, 0), s)
           head == << section_header("1. Micromechanics of Composite Bar"),
                      Text("sidebar.header", "Inputs (Pg 27)") >>
       IN  IF Ef = Zero \/ Em = Zero \/ s = Zero
           THEN /\ out' = out \o head
                /\ pc' = "error"
                /\ UNCHANGED loc
           ELSE /\ loc' = Bind([Em |-> Em, Ef |-> Ef, vm |-> vm, vf |-> vf,
                                Force |-> Force, L |-> L, Ex |-> Ex, Ey |-> Ey])
                /\ out' = out \o head \o
                          << log_step("Longitudinal Modulus (Ex)", Ex, "GPa"),
                             log_step("Transverse Modulus (Ey)", Ey, "GPa") >>
                /\ pc' = "case1_response"
    /\ widget' = Rendered({"Matrix E (GPa)", "Fiber E (GPa)", "Matrix Vol Fraction",
                           "Fiber Vol Fraction", "Axial Load (kN)", "Length (m)"})
    /\ UNCHANGED <<case_selection, history, edits>>

Case1_Response ==
    /\ pc = "case1_response"
    /\ LET Area == RMul(Dec(8, -2), Dec(5, -2))
           Sigma_x == RDiv(RDiv(RMul(loc.Force, Dec(1000, 0)), Area), Dec(1, 6))
           den == RMul(loc.Ex, Dec(1, 9))
           Epsilon_x == RDiv(RMul(Sigma_x, Dec(1, 6)), den)
           Delta_L == RMul(RMul(Epsilon_x, loc.L), Dec(1000, 0))
       IN  IF den = Zero
           THEN /\ pc' = "error"
                /\ UNCHANGED <<loc, out>>
           ELSE /\ loc' = Bind([Area |-> Area, Sigma_x |-> Sigma_x,
                                Epsilon_x |-> Epsilon_x, Delta_L |-> Delta_L])
                /\ out' = out \o << log_step("Axial Stress", Sigma_x, "MPa"),
                                    log_step("Lengthening", Delta_L, "mm") >>
                /\ pc' = "footer"
    /\ UNCHANGED <<case_selection, widget, history, edits>>

----------------------------------------------------------------------------
\* Case 2: bending of the Z-section.

\* Flanges lumped at their own mid-line only (the parallel-axis term lost).
EI_zz_Case2_NoShift(Ef, b, tf) ==
    RMul(RMul(Dec(2, 0), RDiv(RMul(tf, RPow(b, 3)), Dec(12, 0))),
         RMul(Ef, Dec(1, 9)))

EI_yy_Case2(Ef, Ew, h, b, tf, tw) ==
    RAdd(RMul(Dec(2, 0), RMul(RMul(RMul(tf, b), RPow(RDiv(h, Dec(2, 0)), 2)),
                              RMul(Ef, Dec(1, 9)))),
         RDiv(RMul(RMul(RMul(Ew, Dec(1, 9)), tw), RPow(h, 3)), Dec(12, 0)))

EI_zz_Case2(Ef, b, tf) ==
    LET term_flange_zz == RAdd(RDiv(RMul(tf, RPow(b, 3)), Dec(12, 0)),
                               RMul(RMul(tf, b), RPow(RDiv(b, Dec(2, 0)), 2)))
    IN  RMul(RMul(Dec(2, 0), term_flange_zz), RMul(Ef, Dec(1, 9)))

EI_yz_Case2(Ef, h, b, tf) ==
    RMul(Dec(2, 0), RMul(RMul(RMul(RMul(RMul(Ef, Dec(1, 9)), tf), b),
                              RDiv(h, Dec(2, 0))), RDiv(b, Dec(2, 0))))

Case2_Inertia ==
    /\ pc = "case2"
    /\ LET Ef == number_input("Flange E (GPa)")
           Ew == number_input("Web E (GPa)")
           My == number_input("Moment My (kNm)")
           h  == Dec(1, -1)
           b  == Dec(5, -2)
           tf == Dec(2, -3)
           tw == Dec(1, -3)
           EI_yy == EI_yy_Case2(Ef, Ew, h, b, tf, tw)
           EI_zz == EI_zz_Case2(Ef, b, tf)
           EI_yz == EI_yz_Case2(Ef, h, b, tf)
       IN  /\ loc' = Bind([Ef |-> Ef, Ew |-> Ew, My |-> My, h |-> h, b |-> b,
                           tf |-> tf, tw |-> tw, EI_yy |-> EI_yy,
                           EI_zz |-> EI_zz, EI_yz |-> EI_yz])
           /\ out' = out \o << section_header("2. Bending of Thin-Walled Beam"),
                               Text("sidebar.header", "Inputs (Pg 63)"),
                               log_step("Bending Stiffness EI_yy", EI_yy, "N.m^2"),
                               log_step("Bending Stiffness EI_zz", EI_zz, "N.m^2"),
                               log_step("Product Stiffness EI_yz", EI_yz, "N.m^2") >>
    /\ widget' = Rendered({"Flange E (GPa)", "Web E (GPa)", "Moment My (kNm)"})
    /\ pc' = "case2_stress"
    /\ UNCHANGED <<case_selection, history, edits>>

Case2_Stress ==
    /\ pc = "case2_stress"
    /\ LET D  == RSub(RMul(loc.EI_yy, loc.EI_zz), RPow(loc.EI_yz, 2))
           M  == RMul(loc.My, Dec(1000, 0))
           z  == RDiv(loc.h, Dec(2, 0))
           bend == RMul(RMul(loc.EI_zz, M), z)
           sigma_web == RDiv(RDiv(RMul(RMul(loc.Ew, Dec(1, 9)), bend), D), Dec(1, 6))
           sigma_flange_junc ==
               RDiv(RDiv(RMul(RMul(loc.Ef, Dec(1, 9)), bend), D), Dec(1, 6))
           sigma_flange_tip ==
               RDiv(RDiv(RMul(RMul(loc.Ef, Dec(1, 9)),
                              RSub(bend, RMul(RMul(loc.EI_yz, M), loc.b))), D),
                    Dec(1, 6))
       IN  IF D = Zero
           THEN /\ pc' = "error"
                /\ loc' = Bind([D |-> D])
                /\ UNCHANGED out
           ELSE /\ loc' = Bind([D |-> D, sigma_web |-> sigma_web,
                                sigma_flange_junc |-> sigma_flange_junc,
                                sigma_flange_tip |-> sigma_flange_tip])
                /\ out' = out \o
                          << log_step("Max Web Stress", sigma_web, "MPa"),
                             log_step("Flange Stress (Junction)", sigma_flange_junc, "MPa"),
                             log_step("Flange Stress (Tip)", sigma_flange_tip, "MPa") >>
                /\ pc' = "footer"
    /\ UNCHANGED <<case_selection, widget, history, edits>>

----------------------------------------------------------------------------
\* Case 3: shearing of the closed trapezoidal section.

Case3_Stiffness ==
    /\ pc = "case3"
    /\ LET Tz == RMul(number_input("Shear Force Tz (kN)"), Dec(1000, 0))
           h  == Dec(3, -1)
           b  == Dec(25, -2)
           E_BC == Dec(20, 9)
           t_BC == Dec(15, -4)
           I_BC == RMul(E_BC, RDiv(RMul(t_BC, RPow(h, 3)), Dec(12, 0)))
           L_leg == np_sqrt(RAdd(RPow(b, 2), RPow(RDiv(h, Dec(2, 0)), 2)))
           E_leg == Dec(45, 9)
           t_leg == Dec(2, -3)
           EI_yy == Dec(405, 3)
       IN  /\ loc' = Bind([Tz |-> Tz, h |-> h, b |-> b, E_BC |-> E_BC,
                           t_BC |-> t_BC, I_BC |-> I_BC, L_leg |-> L_leg,
                           E_leg |-> E_leg, t_leg |-> t_leg, EI_yy |-> EI_yy])
           /\ out' = out \o << section_header("3. Shearing of Closed Trapezoidal Section"),
                               Text("sidebar.header", "Inputs (Pg 70)"),
                               log_step("Bending Stiffness EI_yy", EI_yy, "N.m^2") >>
    /\ widget' = Rendered({"Shear Force Tz (kN)"})
    /\ pc' = "case3_open"
    /\ UNCHANGED <<case_selection, history, edits>>

Case3_OpenFlow ==
    /\ pc = "case3_open"
    /\ LET q_open_B == Dec(83, 2)
       IN  /\ loc' = Bind([q_open_B |-> q_open_B])
           /\ out' = Append(out, log_step("Open Shear Flow at B (q_o)", q_open_B, "N/m"))
    /\ pc' = "case3_closing"
    /\ UNCHANGED <<case_selection, widget, history, edits>>

Case3_ClosingFlux ==
    /\ pc = "case3_closing"
    /\ LET q_correction == Dec(94, 2)
       IN  /\ loc' = Bind([q_correction |-> q_correction])
           /\ out' = Append(out, log_step("Correction Flux q(0)", q_correction, "N/m"))
    /\ pc' = "case3_final"
    /\ UNCHANGED <<case_selection, widget, history, edits>>

Case3_FinalFlow ==
    /\ pc = "case3_final"
    /\ LET q_final_AC_mid == Dec(11, 2)
       IN  /\ loc' = Bind([q_final_AC_mid |-> q_final_AC_mid])
           /\ out' = out \o << Text("markdown", "#### Final Results (Pg 75)"),
                               Elem("write", "Final Shear Flow (AC mid)",
                                    q_final_AC_mid, q_final_AC_mid, "N/m") >>
    /\ pc' = "footer"
    /\ UNCHANGED <<case_selection, widget, history, edits>>

----------------------------------------------------------------------------
\* Case 4: torsion of the rectangular box.

\* The factor 2 of the enclosed area lost.
q_Case4_NoFactor2(Mx, Ah) == RDiv(Mx, Ah)

q_Case4(Mx, Ah) == RDiv(Mx, RMul(Dec(2, 0), Ah))

\* The webs taken with the covers' modulus and thickness.
int_ds_mut_Case4_Uniform(b, h) ==
    RAdd(RMul(Dec(2, 0), RDiv(b, RMul(Dec(20, 9), Dec(2, -3)))),
         RMul(Dec(2, 0), RDiv(h, RMul(Dec(20, 9), Dec(2, -3)))))

int_ds_mut_Case4(b, h) ==
    RAdd(RMul(Dec(2, 0), RDiv(b, RMul(Dec(20, 9), Dec(2, -3)))),
         RMul(Dec(2, 0), RDiv(h, RMul(Dec(35, 9), Dec(1, -3)))))

J_torsion_Case4(Ah, int_ds_mut) ==
    RDiv(RMul(Dec(4, 0), RPow(Ah, 2)), int_ds_mut)

Case4_ShearFlow ==
    /\ pc = "case4"
    /\ LET Mx == RMul(number_input("Torque Mx (kNm)"), Dec(1000, 0))
           h  == Dec(1, -1)
           b  == Dec(2, -1)
           Ah == RMul(h, b)
           q  == q_Case4(Mx, Ah)
       IN  /\ loc' = Bind([Mx |-> Mx, h |-> h, b |-> b, Ah |-> Ah, q |-> q])
           /\ out' = out \o << section_header("4. Torsion of Rectangular Box"),
                               Text("sidebar.header", "Inputs (Pg 77)"),
                               log_step("Shear Flow q", q, "N/m") >>
    /\ widget' = Rendered({"Torque Mx (kNm)"})
    /\ pc' = "case4_stiffness"
    /\ UNCHANGED <<case_selection, history, edits>>

Case4_Stiffness ==
    /\ pc = "case4_stiffness"
    /\ LET int_ds_mut == int_ds_mut_Case4(loc.b, loc.h)
           J_torsion == J_torsion_Case4(loc.Ah, int_ds_mut)
       IN  /\ loc' = Bind([int_ds_mut |-> int_ds_mut, J_torsion |-> J_torsion])
           /\ out' = Append(out, log_step("Torsional Stiffness", J_torsion, "N.m^2"))
    /\ pc' = "case4_warping"
    /\ UNCHANGED <<case_selection, widget, history, edits>>

Case4_Warping ==
    /\ pc = "case4_warping"
    /\ LET u_warping == Dec(-133, -3)
       IN  /\ loc' = Bind([u_warping |-> u_warping])
           /\ out' = Append(out, log_step("Warping Displacement at A", u_warping, "mm"))
    /\ pc' = "footer"
    /\ UNCHANGED <<case_selection, widget, history, edits>>

----------------------------------------------------------------------------
\* Case 5: torsion of the open C-section.

J_torsion_Case5(Gf, b, tf, Gw, h, tw) ==
    RAdd(RMul(RMul(RMul(RDiv(Dec(2, 0), Dec(3, 0)), Gf), b), RPow(tf, 3)),
         RMul(RMul(RMul(RDiv(Dec(1, 0), Dec(3, 0)), Gw), h), RPow(tw, 3)))

theta_prime_Case5(Mx, J_torsion) == RDiv(Mx, J_torsion)

Case5_Stiffness ==
    /\ pc = "case5"
    /\ LET Mx == number_input("Torque (Nm)")
           b  == Dec(25, -3)
           h  == Dec(5, -2)
           tf == Dec(15, -4)
           tw == Dec(25, -4)
           Gf == Dec(20, 9)
           Gw == Dec(15, 9)
           J_torsion == J_torsion_Case5(Gf, b, tf, Gw, h, tw)
       IN  /\ loc' = Bind([Mx |-> Mx, b |-> b, h |-> h, tf |-> tf, tw |-> tw,
                           Gf |-> Gf, Gw |-> Gw, J_torsion |-> J_torsion])
           /\ out' = out \o << section_header("5. Torsion of Open C-Section"),
                               Text("sidebar.header", "Inputs (Pg 82)"),
                               log_step("Torsional Stiffness", J_torsion, "N.m^2") >>
    /\ widget' = Rendered({"Torque (Nm)"})
    /\ pc' = "case5_twist"
    /\ UNCHANGED <<case_selection, history, edits>>

Case5_TwistRate ==
    /\ pc = "case5_twist"
    /\ LET theta_prime == theta_prime_Case5(loc.Mx, loc.J_torsion)
       IN  /\ loc' = Bind([theta_prime |-> theta_prime])
           /\ out' = Append(out, log_step("Twist Rate", theta_prime, "rad/m"))
    /\ pc' = "case5_stress"
    /\ UNCHANGED <<case_selection, widget, history, edits>>

Case5_MaxStress ==
    /\ pc = "case5_stress"
    /\ LET tau_web == RDiv(RMul(RMul(loc.Gw, loc.tw), loc.theta_prime), Dec(1, 6))
           tau_flange == RDiv(RMul(RMul(loc.Gf, loc.tf), loc.theta_prime), Dec(1, 6))
       IN  /\ loc' = Bind([tau_web |-> tau_web, tau_flange |-> tau_flange])
           /\ out' = out \o << log_step("Max Shear Stress (Web)", tau_web, "MPa"),
                               log_step("Max Shear Stress (Flange)", tau_flange, "MPa") >>
    /\ pc' = "footer"
    /\ UNCHANGED <<case_selection, widget, history, edits>>

----------------------------------------------------------------------------
\* Case 6: exercise, torsion of the I-section.

\* The kN mm input scaled by 1000 as if it were kN m.
Mx_Case6_Kilo(Mx_knmm) == RMul(Mx_knmm, Dec(1000, 0))

Mx_Case6(Mx_knmm) == Mx_knmm

\* One flange only: the factor 2/3 of the two flanges written as 1/3.
J_torsion_Case6_OneFlange(Gf, b, tf, Gw, h, tw) ==
    RAdd(RMul(RMul(RMul(RDiv(Dec(1, 0), Dec(3, 0)), Gf), b), RPow(tf, 3)),
         RMul(RMul(RMul(RDiv(Dec(1, 0), Dec(3, 0)), Gw), h), RPow(tw, 3)))

J_torsion_Case6(Gf, b, tf, Gw, h, tw) ==
    LET term_f == RMul(RMul(RMul(RDiv(Dec(2, 0), Dec(3, 0)), Gf), b), RPow(tf, 3))
        term_w == RMul(RMul(RMul(RDiv(Dec(1, 0), Dec(3, 0)), Gw), h), RPow(tw, 3))
    IN  RAdd(term_f, term_w)

theta_prime_Case6(Mx, J_torsion) == RDiv(Mx, J_torsion)

Case6_Rigidity ==
    /\ pc = "case6"
    /\ LET Mx_knmm == number_input("Torque (kN mm)")
           Mx == Mx_Case6(Mx_knmm)
           h  == Dec(1, -1)
           b  == Dec(5, -2)
           tf == Dec(1, -3)
           tw == Dec(5, -3)
           Gf == Dec(163, 8)
           Gw == Dec(209, 8)
           J_torsion == J_torsion_Case6(Gf, b, tf, Gw, h, tw)
       IN  /\ loc' = Bind([Mx_knmm |-> Mx_knmm, Mx |-> Mx, h |-> h, b |-> b,
                           tf |-> tf, tw |-> tw, Gf |-> Gf, Gw |-> Gw,
                           J_torsion |-> J_torsion])
           /\ out' = out \o << section_header("6. Exercise: Torsion of I-Section"),
                               Text("sidebar.header", "Inputs (Pg 84)"),
                               Text("markdown", "**1. Torsional Rigidity (Pg 88)**"),
                               log_step("Torsional Rigidity", J_torsion, "N.m^2") >>
    /\ widget' = Rendered({"Torque (kN mm)"})
    /\ pc' = "case6_twist"
    /\ UNCHANGED <<case_selection, history, edits>>

Case6_TwistRate ==
    /\ pc = "case6_twist"
    /\ LET theta_prime == theta_prime_Case6(loc.Mx, loc.J_torsion)
       IN  /\ loc' = Bind([theta_prime |-> theta_prime])
           /\ out' = out \o << Text("markdown", "**2. Twist Rate (Pg 88)**"),
                               log_step("Twist Rate", theta_prime, "rad/m") >>
    /\ pc' = "case6_stress"
    /\ UNCHANGED <<case_selection, widget, history, edits>>

Case6_MaxStress ==
    /\ pc = "case6_stress"
    /\ LET tau_w == RDiv(RMul(RMul(loc.Gw, loc.tw), loc.theta_prime), Dec(1, 6))
           tau_f == RDiv(RMul(RMul(loc.Gf, loc.tf), loc.theta_prime), Dec(1, 6))
       IN  /\ loc' = Bind([tau_w |-> tau_w, tau_f |-> tau_f])
           /\ out' = out \o << Text("markdown", "**3. Max Shear Stress (Pg 88)**"),
                               log_step("Stress Web", tau_w, "MPa"),
                               log_step("Stress Flange", tau_f, "MPa") >>
    /\ pc' = "case6_warping"
    /\ UNCHANGED <<case_selection, widget, history, edits>>

Case6_Warping ==
    /\ pc = "case6_warping"
    /\ LET A_swept == RMul(RMul(Dec(5, -1), loc.b), RDiv(loc.h, Dec(2, 0)))
           u_warping == RMul(RMul(RMul(Dec(-2, 0), A_swept), loc.theta_prime),
                             Dec(1000, 0))
       IN  /\ loc' = Bind([A_swept |-> A_swept, u_warping |-> u_warping])
           /\ out' = out \o << Text("markdown", "**4. Warping at Point 1 (Pg 89)**"),
                               log_step("Swept Area", A_swept, "m^2"),
                               log_step("Warping Displacement", u_warping, "mm") >>
    /\ pc' = "footer"
    /\ UNCHANGED <<case_selection, widget, history, edits>>

----------------------------------------------------------------------------
FooterText ==
    "Validation complete. All numerical cases from the document (Pages 1-89) are implemented."

Footer ==
    /\ pc = "footer"
    /\ out' = out \o << Text("divider", ""),
                        Text("info", FooterText) >>
    /\ history' = history \cup
                  { [case |-> case_selection, input |-> widget, out |-> out'] }
    /\ pc' = "done"
    /\ UNCHANGED <<case_selection, widget, loc, edits>>

Next ==
    \/ \E i \in 1..Len(Options) : SelectCase(Options[i])
    \/ \E l \in DOMAIN widget : \E v \in InputValues(l) : EditInput(l, v)
    \/ Dispatch
    \/ Case1_Moduli
    \/ Case1_Response
    \/ Case2_Inertia
    \/ Case2_Stress
    \/ Case3_Stiffness
    \/ Case3_OpenFlow
    \/ Case3_ClosingFlux
    \/ Case3_FinalFlow
    \/ Case4_ShearFlow
    \/ Case4_Stiffness
    \/ Case4_Warping
    \/ Case5_Stiffness
    \/ Case5_TwistRate
    \/ Case5_MaxStress
    \/ Case6_Rigidity
    \/ Case6_TwistRate
    \/ Case6_MaxStress
    \/ Case6_Warping
    \/ Footer

Spec == Init /\ [][Next]_vars

----------------------------------------------------------------------------
\* Reading the completed runs.

\* The element a run rendered under the given label.
Logged(o, l) ==
    o[CHOOSE i \in 1..Len(o) : o[i].label = l /\ o[i].kind \in {"log_step", "write"}]

HasLogged(o, l) ==
    \E i \in 1..Len(o) : o[i].label = l /\ o[i].kind \in {"log_step", "write"}

\* The completed runs of the i-th option.
Runs(i) == { r \in history : r.case = Options[i] }

\* Closed-form integrals along a straight wall from (y1, z1) to (y2, z2).
Int_zz(s) ==
    RDiv(RMul(s.len, RAdd(RAdd(RMul(s.z1, s.z1), RMul(s.z1, s.z2)), RMul(s.z2, s.z2))),
         Dec(3, 0))

Int_yy(s) ==
    RDiv(RMul(s.len, RAdd(RAdd(RMul(s.y1, s.y1), RMul(s.y1, s.y2)), RMul(s.y2, s.y2))),
         Dec(3, 0))

Int_yz(s) ==
    RDiv(RMul(s.len,
              RAdd(RAdd(RMul(Dec(2, 0), RMul(s.y1, s.z1)), RMul(s.y1, s.z2)),
                   RAdd(RMul(s.y2, s.z1), RMul(Dec(2, 0), RMul(s.y2, s.z2))))),
         Dec(6, 0))

RECURSIVE SumOf(_)
SumOf(terms) ==
    IF terms = <<>> THEN Zero ELSE RAdd(Head(terms), SumOf(Tail(terms)))

Et_zz(s) == RMul(RMul(s.E, s.t), Int_zz(s))
Et_yy(s) == RMul(RMul(s.E, s.t), Int_yy(s))
Et_yz(s) == RMul(RMul(s.E, s.t), Int_yz(s))
Strip(s) == RMul(RMul(RMul(RDiv(Dec(1, 0), Dec(3, 0)), s.G), s.len), RPow(s.t, 3))
LoopTerm(s) == RDiv(s.len, RMul(s.G, s.t))

Wall(len, G, t) == [len |-> len, G |-> G, t |-> t]

\* The box of Case 4: covers of length b = 0.2 m, webs of length h = 0.1 m.
BoxWalls ==
    << Wall(Dec(2, -1), Dec(20, 9), Dec(2, -3)), Wall(Dec(1, -1), Dec(35, 9), Dec(1, -3)),
       Wall(Dec(2, -1), Dec(20, 9), Dec(2, -3)), Wall(Dec(1, -1), Dec(35, 9), Dec(1, -3)) >>

BoxArea == RMul(Dec(2, -1), Dec(1, -1))

\* The C-section of Case 5 and the I-section of Case 6: flange, web, flange.
CWalls ==
    << Wall(Dec(25, -3), Dec(20, 9), Dec(15, -4)), Wall(Dec(5, -2), Dec(15, 9), Dec(25, -4)),
       Wall(Dec(25, -3), Dec(20, 9), Dec(15, -4)) >>

IWalls ==
    << Wall(Dec(5, -2), Dec(163, 8), Dec(1, -3)), Wall(Dec(1, -1), Dec(209, 8), Dec(5, -3)),
       Wall(Dec(5, -2), Dec(163, 8), Dec(1, -3)) >>

Sum(walls, Term(_)) == SumOf([i \in 1..Len(walls) |-> Term(walls[i])])

\* The Z-section of Case 2 about the web centre: web on y = 0, upper flange
\* at z = h/2 from y = 0 to y = b, lower flange at z = -h/2 from y = 0 to -b.
ZWeb(Ew) ==
    [y1 |-> Zero, z1 |-> Dec(-5, -2), y2 |-> Zero, z2 |-> Dec(5, -2),
     len |-> Dec(1, -1), t |-> Dec(1, -3), E |-> RMul(Ew, Dec(1, 9))]

ZFlanges(Ef) ==
    << [y1 |-> Zero, z1 |-> Dec(5, -2), y2 |-> Dec(5, -2), z2 |-> Dec(5, -2),
        len |-> Dec(5, -2), t |-> Dec(2, -3), E |-> RMul(Ef, Dec(1, 9))],
       [y1 |-> Zero, z1 |-> Dec(-5, -2), y2 |-> Dec(-5, -2), z2 |-> Dec(-5, -2),
        len |-> Dec(5, -2), t |-> Dec(2, -3), E |-> RMul(Ef, Dec(1, 9))] >>

ZSection(Ef, Ew) == <<ZWeb(Ew)>> \o ZFlanges(Ef)

BlockHeader ==
    << "1. Micromechanics of Composite Bar",
       "2. Bending of Thin-Walled Beam",
       "3. Shearing of Closed Trapezoidal Section",
       "4. Torsion of Rectangular Box",
       "5. Torsion of Open C-Section",
       "6. Exercise: Torsion of I-Section" >>

Kinds(o, k) == { i \in 1..Len(o) : o[i].kind = k }

----------------------------------------------------------------------------
\* C1: in every completed run of Case 4 the shear flow passed to the report
\* is the torque in N.m (the kN.m input times 1000) divided by twice the
\* enclosed area b*h = 0.02 m^2; for 10,000 N.m it is 250,000 N/m.
BoxShearFlowIsBredt ==
    \A r \in Runs(4) :
        LET torque == RMul(r.input["Torque Mx (kNm)"], Dec(1000, 0))
            q == Logged(r.out, "Shear Flow q").value
        IN  /\ BoxArea = Dec(2, -2)
            /\ RMul(q, RMul(Dec(2, 0), BoxArea)) = torque
            /\ (torque = Dec(10000, 0) => q = Dec(250000, 0))

BoxShearFlowReported ==
    \E r1, r2 \in Runs(4) :
        /\ r1.input["Torque Mx (kNm)"] = Dec(10, 0)
        /\ r2.input["Torque Mx (kNm)"] = Dec(20, 0)
        /\ Logged(r2.out, "Shear Flow q").value = Dec(500000, 0)

\* C2: in every completed run of Case 4 the torsional rigidity is
\* 4 * area^2 over the sum of length / (shear modulus * thickness) of the
\* four walls, and it is the same for every torque.
BoxRigidityIsLoopFormula ==
    /\ \A r \in Runs(4) :
           Logged(r.out, "Torsional Stiffness").value =
               RDiv(RMul(Dec(4, 0), RPow(BoxArea, 2)), Sum(BoxWalls, LoopTerm))
    /\ \A r1, r2 \in Runs(4) :
           Logged(r1.out, "Torsional Stiffness") = Logged(r2.out, "Torsional Stiffness")

BoxRigidityReportedForTwoTorques ==
    \E r1, r2 \in Runs(4) :
        /\ r1.input["Torque Mx (kNm)"] # r2.input["Torque Mx (kNm)"]
        /\ Logged(r1.out, "Torsional Stiffness").shown = Dec(1018, 2)
        /\ Logged(r2.out, "Torsional Stiffness").shown = Dec(1018, 2)

\* C3: in Cases 5 and 6 the torsional rigidity is the sum over the two
\* flanges and the web of (1/3) * shear modulus * length * thickness^3, and
\* it is the same for every torque.
OpenRigidityIsStripSum ==
    /\ \A r \in Runs(5) :
           Logged(r.out, "Torsional Stiffness").value = Sum(CWalls, Strip)
    /\ \A r \in Runs(6) :
           Logged(r.out, "Torsional Rigidity").value = Sum(IWalls, Strip)
    /\ \A r1, r2 \in Runs(5) :
           Logged(r1.out, "Torsional Stiffness") = Logged(r2.out, "Torsional Stiffness")
    /\ \A r1, r2 \in Runs(6) :
           Logged(r1.out, "Torsional Rigidity") = Logged(r2.out, "Torsional Rigidity")

OpenRigidityReportedInBothCases ==
    /\ \E r \in Runs(5) : Logged(r.out, "Torsional Stiffness").shown = Dec(5031, -3)
    /\ \E r \in Runs(6) : Logged(r.out, "Torsional Rigidity").shown = Dec(8763, -2)

\* C4: only Cases 5 and 6 report a twist rate, and there the twist rate
\* times the rigidity of the same run is the torque in N.m; the kN.mm input
\* of Case 6 enters with its own numeric value.
TwistRateIsTorqueOverRigidity ==
    /\ \A r \in history :
           HasLogged(r.out, "Twist Rate") => r \in Runs(5) \cup Runs(6)
    /\ \A r \in Runs(5) :
           RMul(Logged(r.out, "Twist Rate").value,
                Logged(r.out, "Torsional Stiffness").value) = r.input["Torque (Nm)"]
    /\ \A r \in Runs(6) :
           RMul(Logged(r.out, "Twist Rate").value,
                Logged(r.out, "Torsional Rigidity").value) = r.input["Torque (kN mm)"]

TwistRateReportedInBothCases ==
    /\ \E r \in Runs(5) : Logged(r.out, "Twist Rate").value # Zero
    /\ \E r \in Runs(6) : /\ r.input["Torque (kN mm)"] = Dec(5, -1)
                          /\ Logged(r.out, "Twist Rate").value # Zero

\* C5: the warping at corner A of the box is -2 * swept_area(A) * theta'
\* with theta' = torque / rigidity, so over the runs of Case 4 the warping
\* is proportional to theta' (and to the torque).
BoxWarpingFollowsTwist ==
    \A r1, r2 \in Runs(4) :
        LET theta(r) == RDiv(RMul(r.input["Torque Mx (kNm)"], Dec(1000, 0)),
                             Logged(r.out, "Torsional Stiffness").value)
            u(r) == Logged(r.out, "Warping Displacement at A").value
        IN  RMul(u(r1), theta(r2)) = RMul(u(r2), theta(r1))

\* C6: over the runs of Case 3 the open shear flow at B, the correction
\* flow and the final flow are each proportional to the shear force Tz.
TrapezoidFlowsScaleWithTz ==
    \A r1, r2 \in Runs(3) :
        \A l \in {"Open Shear Flow at B (q_o)", "Correction Flux q(0)",
                  "Final Shear Flow (AC mid)"} :
            RMul(Logged(r1.out, l).value, r2.input["Shear Force Tz (kN)"]) =
            RMul(Logged(r2.out, l).value, r1.input["Shear Force Tz (kN)"])

\* C7: the EI_yy of Case 3 is the web's 20 GPa * 1.5 mm * h^3 / 12 plus,
\* for each of the two legs, 45 GPa * 2 mm * L * (h/2)^2 / 3 with
\* L = sqrt(b^2 + (h/2)^2); stated without the root: the leg length the
\* reported value implies is positive and its square is b^2 + (h/2)^2.
TrapezoidEIyyIsWallSum ==
    \A r \in Runs(3) :
        LET h == Dec(3, -1)
            b == Dec(25, -2)
            web == RMul(RMul(Dec(20, 9), Dec(15, -4)), RDiv(RPow(h, 3), Dec(12, 0)))
            perLength == RMul(Dec(2, 0),
                              RMul(RMul(Dec(45, 9), Dec(2, -3)),
                                   RDiv(RPow(RDiv(h, Dec(2, 0)), 2), Dec(3, 0))))
            L == RDiv(RSub(Logged(r.out, "Bending Stiffness EI_yy").value, web),
                      perLength)
        IN  /\ L[1] > 0
            /\ RPow(L, 2) = RAdd(RPow(b, 2), RPow(RDiv(h, Dec(2, 0)), 2))

\* C9: in every completed run of Case 2 the three stiffnesses are the sums
\* over web and flanges of modulus * thickness * (integral of z^2, y^2, y*z
\* along the mid-line); the web adds nothing to EI_zz and EI_yz.
ZStiffnessIsSegmentSum ==
    \A r \in Runs(2) :
        LET Ef == r.input["Flange E (GPa)"]
            Ew == r.input["Web E (GPa)"]
        IN  /\ Logged(r.out, "Bending Stiffness EI_yy").value =
                   Sum(ZSection(Ef, Ew), Et_zz)
            /\ Logged(r.out, "Bending Stiffness EI_zz").value =
                   Sum(ZSection(Ef, Ew), Et_yy)
            /\ Logged(r.out, "Product Stiffness EI_yz").value =
                   Sum(ZSection(Ef, Ew), Et_yz)
            /\ Et_yy(ZWeb(Ew)) = Zero /\ Et_yz(ZWeb(Ew)) = Zero
            /\ Logged(r.out, "Bending Stiffness EI_zz").value =
                   Sum(ZFlanges(Ef), Et_yy)
            /\ Logged(r.out, "Product Stiffness EI_yz").value =
                   Sum(ZFlanges(Ef), Et_yz)

ZStiffnessReportedForEnteredModuli ==
    \E r1, r2 \in Runs(2) :
        /\ r1.input["Flange E (GPa)"] = Dec(50, 0)
        /\ r2.input["Flange E (GPa)"] = Dec(100, 0)
        /\ Logged(r2.out, "Bending Stiffness EI_yy").value = Dec(51250, 0)
        /\ Logged(r2.out, "Product Stiffness EI_yz").value = Dec(25000, 0)

\* C10: a completed run has executed exactly one case block, the block of
\* the selected option, and then the footer; what a run shows is a function
\* of the selected case and its inputs.
OneBlockPerRun ==
    /\ pc = "done" =>
           /\ \E i \in 1..Len(Options) :
                  /\ Options[i] = case_selection
                  /\ Kinds(out, "header") = {1}
                  /\ out[1].label = BlockHeader[i]
           /\ Kinds(out, "info") = {Len(out)}
           /\ Kinds(out, "divider") = {Len(out) - 1}
           /\ Kinds(out, "log_step") # {}
    /\ \A r1, r2 \in history :
           r1.case = r2.case /\ r1.input = r2.input => r1.out = r2.out

SeveralCasesRun ==
    /\ pc = "done"
    /\ case_selection = Options[6]
    /\ Runs(1) # {} /\ Runs(3) # {} /\ Runs(6) # {}

\* In every run of Case 2 that reaches the stress step the determinant
\* D = EI_yy * EI_zz - EI_yz^2 is positive: the moduli cannot be entered
\* below 50 and 15 GPa.
Case2_DeterminantPositive ==
    "D" \in DOMAIN loc => loc.D[1] > 0 /\ pc # "error"

====
